---- MODULE Spec2Model ----
(***************************************************************************)
(* gnubg-service: the process driver (gnubg_runner.py) and the output      *)
(* parser (output_parser.py).                                              *)
(*                                                                         *)
(* A Python str is a TLA+ string; its characters are read with Head, Tail  *)
(* and SubSeq.  A Python list is a sequence.                               *)
(***************************************************************************)
EXTENDS Integers, Sequences, FiniteSets, TLC

\* ------------------------------------------------------------------ bounds
NumCallers == 2
MaxFiles == 1
MaxOutput == 1
MaxPlies == 1
MaxCalls == 3
MaxEvalLines == 2
MaxCubeLines == 3
MaxMoveLines == 2
FracDigits == 4

Callers == 1..NumCallers

VARIABLES
  pc,            \* each caller's position in execute_commands / execute_with_sgf
  kind,          \* "cmd": execute_commands called directly, "sgf": through execute_with_sgf
  commands,      \* the list execute_commands was called with
  temp_file,     \* execute_with_sgf's temp_file ("" outside execute_with_sgf)
  lock,          \* self._lock: 0 when free, else the caller holding it
  waiters,       \* callers blocked in `with self._lock`, in the order they began to wait
  passed,        \* the callers that were blocked before the holder of the lock began to wait
  procs,         \* callers whose engine subprocess is alive
  full_command,  \* the script handed to the subprocess as its standard input
  stdout,        \* what the caller's subprocess has written to standard output
  stderr,        \* what it has written to standard error
  returncode,    \* -1 while there is none, else the exit code of the process
  expired,       \* subprocess.run raised TimeoutExpired in this call
  spawned,       \* number of processes this call has spawned
  outcome,       \* how the call ended: [kind, value]
  remove_failed, \* os.remove raised in the finally block of this call
  files,         \* names of the files that exist in the temp directory
  gnubg_output,  \* the text handed to a decoder of output_parser.py
  entries,       \* the lines gnubg_output was made of, in order
  phase,         \* "input" while the text is being made, "parsed" after the decoder ran
  raised,        \* the exception the decoder raised ("" when it returned)
  evaluation,    \* parse_evaluation's PositionEvaluation
  decision,      \* parse_cube_decision's CubeDecision
  move_analyses, \* parse_move_analysis's list of MoveAnalysis
  calls          \* how many invocations were made, where their number is bounded

runnerVars == <<pc, kind, commands, temp_file, lock, waiters, passed, procs,
                full_command, stdout, stderr, returncode, expired, spawned,
                outcome, remove_failed, files>>

parserVars == <<gnubg_output, entries, phase, raised, evaluation, decision, move_analyses>>

vars == <<runnerVars, parserVars, calls>>

\* ------------------------------------------------------------ str helpers
NL == "\n"
QUIT == "quit"

\* '\n'.join(parts)
RECURSIVE Join(_)
Join(parts) ==
  IF parts = <<>> THEN ""
  ELSE IF Len(parts) = 1 THEN parts[1]
  ELSE parts[1] \o NL \o Join(Tail(parts))

\* s[i], 1-based
Ch(s, i) == SubSeq(s, i, i)

\* The lines of a script: the pieces each "\n" terminates (what the engine
\* reads line by line); text after the last "\n" is a last, unterminated line.
ScriptLines(s) ==
  LET n == Len(s)
      breaks == {i \in 1..n : Ch(s, i) = NL}
      starts == {st \in {1} \cup {i + 1 : i \in breaks} : st <= n}
      nth(k) == CHOOSE st \in starts : Cardinality({x \in starts : x < st}) = k - 1
      stop(st) == IF \E i \in breaks : i >= st
                  THEN CHOOSE i \in breaks : i >= st /\ \A j \in breaks : j >= st => i <= j
                  ELSE n + 1
  IN [k \in 1..Cardinality(starts) |-> SubSeq(s, nth(k), stop(nth(k)) - 1)]

\* ------------------------------------------------------- command builders
\* f"... {plies}"
PliesText(plies) == ToString(plies)

build_evaluation_commands(plies, use_neural_net) ==
  << "set automatic game off",
     "set automatic roll off",
     "set evaluation chequerplay evaluation plies " \o PliesText(plies),
     "set evaluation cubedecision evaluation plies " \o PliesText(plies) >>
  \o (IF use_neural_net
      THEN << "set evaluation chequerplay evaluation cubeful off" >>
      ELSE <<>>)
  \o << "eval" >>

build_hint_commands(plies, use_neural_net) ==
  << "set automatic game off",
     "set automatic roll off",
     "set evaluation chequerplay evaluation plies " \o PliesText(plies),
     "set evaluation cubedecision evaluation plies " \o PliesText(plies) >>
  \o (IF use_neural_net
      THEN << "set evaluation chequerplay evaluation cubeful off" >>
      ELSE <<>>)
  \o << "hint" >>

build_cube_commands(plies, use_neural_net) ==
  << "set automatic game off",
     "set automatic roll off",
     "set evaluation chequerplay evaluation plies " \o PliesText(plies),
     "set evaluation cubedecision evaluation plies " \o PliesText(plies) >>
  \o (IF use_neural_net
      THEN << "set evaluation chequerplay evaluation cubeful on",
              "set evaluation cubedecision evaluation cubeful on" >>
      ELSE <<>>)
  \o << "hint cube" >>

\* The lists app.py passes to execute_with_sgf: always a builder's result.
BuiltCommands ==
  UNION { { build_evaluation_commands(p, n), build_hint_commands(p, n),
            build_cube_commands(p, n) } : p \in 0..MaxPlies, n \in BOOLEAN }

\* The lists that reach execute_commands directly: the availability probe and
\* the /execute endpoint, whose list is the request's, unvalidated.
RawCommands ==
  { <<>>,
    << "show version" >>,
    << "quit" >>,
    << "hint", "quit" >>,
    << "" >>,
    << "eval\nhint" >>,
    << "set dice 3 1", "hint" >> }

\* f"gnubg_{uuid.uuid4()}.sgf"
TempName(n) == "gnubg_" \o ToString(n) \o ".sgf"

\* ------------------------------------------------------------ the parser
\* A float is modelled exactly, as a whole number of units of 10^-FracDigits;
\* the texts the model reads hold no number with more decimals than that
\* leaves room for, so no value is cut.
RECURSIVE Pow10(_)
Pow10(n) == IF n = 0 THEN 1 ELSE 10 * Pow10(n - 1)

Unit == Pow10(FracDigits)

\* \d
Digit == {"0", "1", "2", "3", "4", "5", "6", "7", "8", "9"}

\* \s
Space == {" ", "\t", "\n", "\r", "\f"}

\* [:\s]
Sep == {":"} \cup Space

\* [\d.]
DigitOrDot == Digit \cup {"."}

\* str.lower() / re.IGNORECASE, one character
LowerCh(c) ==
  LET upper == "ABCDEFGHIJKLMNOPQRSTUVWXYZ"
      lower == "abcdefghijklmnopqrstuvwxyz"
  IN IF \E i \in 1..Len(upper) : Ch(upper, i) = c
     THEN Ch(lower, CHOOSE i \in 1..Len(upper) : Ch(upper, i) = c)
     ELSE c

\* The literal `lit` (given in lower case) is at s[i..], letter case ignored.
LitAt(s, i, lit) ==
  /\ i + Len(lit) - 1 <= Len(s)
  /\ \A k \in 1..Len(lit) : LowerCh(Ch(s, i + k - 1)) = Ch(lit, k)

\* lit in s.lower()
Contains(s, lit) == \E i \in 1..Len(s) : LitAt(s, i, lit)

\* Where the longest run of characters of the class that starts at s[i] ends:
\* the index after it (i itself when the run is empty).
RunEnd(s, i, class) ==
  CHOOSE j \in i..(Len(s) + 1) :
    /\ \A k \in i..(j - 1) : Ch(s, k) \in class
    /\ j = Len(s) + 1 \/ Ch(s, j) \notin class

NoMatch == [ok |-> FALSE, group |-> ""]

\* [:\s]+([-+]?\d+\.\d+) at s[p..]: the match object, group(1) in `group`.
\* The classes that follow one another are disjoint, so the greedy match is
\* the only one.
SignedDecimalAt(s, p) ==
  LET p2 == RunEnd(s, p, Sep)
      p3 == IF p2 <= Len(s) /\ Ch(s, p2) \in {"+", "-"} THEN p2 + 1 ELSE p2
      p4 == RunEnd(s, p3, Digit)
      p5 == RunEnd(s, p4 + 1, Digit)
  IN IF /\ p <= Len(s)
        /\ p2 > p
        /\ p4 > p3
        /\ p4 <= Len(s)
        /\ Ch(s, p4) = "."
        /\ p5 > p4 + 1
     THEN [ok |-> TRUE, group |-> SubSeq(s, p2, p5 - 1)]
     ELSE NoMatch

\* [:\s]+([\d.]+)% at s[p..]
PercentAt(s, p) ==
  LET p2 == RunEnd(s, p, Sep)
      p3 == RunEnd(s, p2, DigitOrDot)
  IN IF /\ p <= Len(s)
        /\ p2 > p
        /\ p3 > p2
        /\ p3 <= Len(s)
        /\ Ch(s, p3) = "%"
     THEN [ok |-> TRUE, group |-> SubSeq(s, p2, p3 - 1)]
     ELSE NoMatch

\* first\s+second at s[i..]: the index after it, or 0
TwoWordsEnd(s, i, first, second) ==
  LET p1 == i + Len(first)
      p2 == RunEnd(s, p1, Space)
  IN IF LitAt(s, i, first) /\ p1 <= Len(s) /\ p2 > p1 /\ LitAt(s, p2, second)
     THEN p2 + Len(second)
     ELSE 0

\* r'Equity[:\s]+([-+]?\d+\.\d+)' at s[i..]
EquityAt(s, i) ==
  IF LitAt(s, i, "equity") THEN SignedDecimalAt(s, i + 6) ELSE NoMatch

\* r'Win[:\s]+([\d.]+)%' at s[i..]
WinAt(s, i) ==
  IF LitAt(s, i, "win") THEN PercentAt(s, i + 3) ELSE NoMatch

\* r'(?:Win\s+G|Gammon)[:\s]+([\d.]+)%' at s[i..]
GammonAt(s, i) ==
  IF TwoWordsEnd(s, i, "win", "g") # 0 /\ PercentAt(s, TwoWordsEnd(s, i, "win", "g")).ok
  THEN PercentAt(s, TwoWordsEnd(s, i, "win", "g"))
  ELSE IF LitAt(s, i, "gammon") THEN PercentAt(s, i + 6) ELSE NoMatch

\* r'(?:Win\s+BG|Backgammon)[:\s]+([\d.]+)%' at s[i..]
BgAt(s, i) ==
  IF TwoWordsEnd(s, i, "win", "bg") # 0 /\ PercentAt(s, TwoWordsEnd(s, i, "win", "bg")).ok
  THEN PercentAt(s, TwoWordsEnd(s, i, "win", "bg"))
  ELSE IF LitAt(s, i, "backgammon") THEN PercentAt(s, i + 10) ELSE NoMatch

\* r'No\s+double[:\s]+([-+]?\d+\.\d+)' at s[i..]
NoDoubleAt(s, i) ==
  IF TwoWordsEnd(s, i, "no", "double") # 0
  THEN SignedDecimalAt(s, TwoWordsEnd(s, i, "no", "double"))
  ELSE NoMatch

\* r'Double,\s+take[:\s]+([-+]?\d+\.\d+)' at s[i..]
DoubleTakeAt(s, i) ==
  IF TwoWordsEnd(s, i, "double,", "take") # 0
  THEN SignedDecimalAt(s, TwoWordsEnd(s, i, "double,", "take"))
  ELSE NoMatch

\* r'Double,\s+pass[:\s]+([-+]?\d+\.\d+)' at s[i..]
DoublePassAt(s, i) ==
  IF TwoWordsEnd(s, i, "double,", "pass") # 0
  THEN SignedDecimalAt(s, TwoWordsEnd(s, i, "double,", "pass"))
  ELSE NoMatch

\* re.match of the named pattern at s[i..]
MatchAt(pattern, s, i) ==
  CASE pattern = "equity" -> EquityAt(s, i)
    [] pattern = "win" -> WinAt(s, i)
    [] pattern = "gammon" -> GammonAt(s, i)
    [] pattern = "bg" -> BgAt(s, i)
    [] pattern = "no_double" -> NoDoubleAt(s, i)
    [] pattern = "double_take" -> DoubleTakeAt(s, i)
    [] pattern = "double_pass" -> DoublePassAt(s, i)

\* re.search(pattern, s, re.IGNORECASE): the match at the first index where
\* the pattern matches, or no match.
Search(pattern, s) ==
  LET hits == {i \in 1..Len(s) : MatchAt(pattern, s, i).ok}
  IN IF hits = {} THEN NoMatch
     ELSE MatchAt(pattern, s, CHOOSE i \in hits : \A j \in hits : i <= j)

\* int() of a run of digits
RECURSIVE IntOf(_)
IntOf(digits) ==
  IF digits = "" THEN 0
  ELSE 10 * IntOf(SubSeq(digits, 1, Len(digits) - 1))
       + (CHOOSE d \in 0..9 : Ch("0123456789", d + 1) = Ch(digits, Len(digits)))

Dots(str) == {i \in 1..Len(str) : Ch(str, i) = "."}

\* float(str) raises ValueError: of the strings the patterns capture, those
\* with more than one "." or with no digit.
FloatRaises(str) ==
  \/ Cardinality(Dots(str)) > 1
  \/ \A i \in 1..Len(str) : Ch(str, i) \notin Digit

\* float(str), in units of 10^-FracDigits
FloatOf(str) ==
  LET neg == str # "" /\ Ch(str, 1) = "-"
      body == IF str # "" /\ Ch(str, 1) \in {"+", "-"} THEN Tail(str) ELSE str
      dot == IF Dots(body) = {} THEN Len(body) + 1 ELSE CHOOSE i \in Dots(body) : TRUE
      whole == SubSeq(body, 1, dot - 1)
      frac == SubSeq(body, dot + 1, Len(body))
      v == IntOf(whole) * Unit + IntOf(frac) * Pow10(FracDigits - Len(frac))
  IN IF neg THEN 0 - v ELSE v

\* x / 100.0
Percent(x) == x \div 100

\* @dataclass defaults
PositionEvaluation == [equity |-> 0, win_prob |-> 0, gammon_prob |-> 0, bg_prob |-> 0]

CubeDecision ==
  [no_double_eq |-> 0, double_take_eq |-> 0, double_pass_eq |-> 0,
   recommendation |-> "NoDouble"]

\* parse_evaluation(gnubg_output): [raised, value]
parse_evaluation(s) ==
  LET equity_match == Search("equity", s)
      win_match == Search("win", s)
      gammon_match == Search("gammon", s)
      bg_match == Search("bg", s)
  IN IF \/ win_match.ok /\ FloatRaises(win_match.group)
        \/ gammon_match.ok /\ FloatRaises(gammon_match.group)
        \/ bg_match.ok /\ FloatRaises(bg_match.group)
     THEN [raised |-> "ValueError", value |-> PositionEvaluation]
     ELSE [raised |-> "",
           value |->
             [equity |-> IF equity_match.ok THEN FloatOf(equity_match.group) ELSE 0,
              win_prob |-> IF win_match.ok THEN Percent(FloatOf(win_match.group)) ELSE 0,
              gammon_prob |-> IF gammon_match.ok
                              THEN Percent(FloatOf(gammon_match.group)) ELSE 0,
              bg_prob |-> IF bg_match.ok THEN Percent(FloatOf(bg_match.group)) ELSE 0]]

\* The inference with the comparisons not strict.
InferredNonStrict(no_double_eq, double_take_eq, double_pass_eq) ==
  IF double_take_eq >= no_double_eq /\ double_take_eq >= double_pass_eq
  THEN "Double"
  ELSE IF double_pass_eq >= no_double_eq /\ double_pass_eq >= double_take_eq
  THEN "TooGood"
  ELSE "NoDouble"

\* Determine recommendation based on equities
Inferred(no_double_eq, double_take_eq, double_pass_eq) ==
  IF double_take_eq > no_double_eq /\ double_take_eq > double_pass_eq
  THEN "Double"
  ELSE IF double_pass_eq > no_double_eq /\ double_pass_eq > double_take_eq
  THEN "TooGood"
  ELSE "NoDouble"

\* The phrases looked for in the opposite order.
ExplicitReversed(s, inferred) ==
  IF Contains(s, "too good") THEN "TooGood"
  ELSE IF Contains(s, "correct cube action: no double") THEN "NoDouble"
  ELSE IF Contains(s, "correct cube action: double") THEN "Double"
  ELSE inferred

\* Look for explicit recommendation in output
Explicit(s, inferred) ==
  IF Contains(s, "correct cube action: double") THEN "Double"
  ELSE IF Contains(s, "correct cube action: no double") THEN "NoDouble"
  ELSE IF Contains(s, "too good") THEN "TooGood"
  ELSE inferred

\* parse_cube_decision(gnubg_output)
parse_cube_decision(s) ==
  LET no_double_match == Search("no_double", s)
      double_take_match == Search("double_take", s)
      double_pass_match == Search("double_pass", s)
      nd == IF no_double_match.ok THEN FloatOf(no_double_match.group) ELSE 0
      dt == IF double_take_match.ok THEN FloatOf(double_take_match.group) ELSE 0
      dp == IF double_pass_match.ok THEN FloatOf(double_pass_match.group) ELSE 0
  IN [no_double_eq |-> nd, double_take_eq |-> dt, double_pass_eq |-> dp,
      recommendation |-> Explicit(s, Inferred(nd, dt, dp))]

\* ------------------------------------------------------ parse_move_analysis
\* gnubg_output.split('\n'): the pieces between the line breaks, one more
\* than there are breaks.
SplitLines(s) ==
  LET n == Len(s)
      breaks == {i \in 1..n : Ch(s, i) = NL}
      brk(k) == IF k = 0 THEN 0
                ELSE IF k > Cardinality(breaks) THEN n + 1
                ELSE CHOOSE i \in breaks : Cardinality({j \in breaks : j < i}) = k - 1
  IN [k \in 1..(Cardinality(breaks) + 1) |-> SubSeq(s, brk(k - 1) + 1, brk(k) - 1)]

\* str.strip()
Strip(s) ==
  LET inked == {i \in 1..Len(s) : Ch(s, i) \notin Space}
  IN IF inked = {} THEN ""
     ELSE SubSeq(s, CHOOSE i \in inked : \A j \in inked : i <= j,
                    CHOOSE i \in inked : \A j \in inked : j <= i)

\* str.find(lit) on s.lower(): the first index (from 1) where lit is, 0 for -1
Find(s, lit) ==
  IF Contains(s, lit)
  THEN CHOOSE i \in 1..Len(s) : LitAt(s, i, lit) /\ \A j \in 1..(i - 1) : ~LitAt(s, j, lit)
  ELSE 0

\* str.split(): the whitespace-delimited tokens, in order
Tokens(s) ==
  LET n == Len(s)
      ink == {Ch(s, i) : i \in 1..n} \ Space
      starts == {i \in 1..n : Ch(s, i) \in ink /\ (i = 1 \/ Ch(s, i - 1) \in Space)}
      nth(k) == CHOOSE i \in starts : Cardinality({j \in starts : j < i}) = k - 1
  IN [k \in 1..Cardinality(starts) |-> SubSeq(s, nth(k), RunEnd(s, nth(k), ink) - 1)]

\* '/' in part
HasSlash(part) == \E i \in 1..Len(part) : Ch(part, i) = "/"

\* ' '.join(parts)
RECURSIVE JoinSpace(_)
JoinSpace(parts) ==
  IF parts = <<>> THEN ""
  ELSE IF Len(parts) = 1 THEN parts[1]
  ELSE parts[1] \o " " \o JoinSpace(Tail(parts))

\* int(str) raises ValueError: the string, blanks at its ends apart, is not a
\* run of digits.
IntRaises(str) ==
  \/ Strip(str) = ""
  \/ \E i \in 1..Len(Strip(str)) : Ch(Strip(str), i) \notin Digit

\* re.match(r'([-+]?\d+\.?\d*)', s): the match object, group(1) in `group`
EquityMatch(s) ==
  LET p1 == IF s # "" /\ Ch(s, 1) \in {"+", "-"} THEN 2 ELSE 1
      p2 == RunEnd(s, p1, Digit)
      p3 == IF p2 <= Len(s) /\ Ch(s, p2) = "." THEN RunEnd(s, p2 + 1, Digit) ELSE p2
  IN IF p1 <= Len(s) /\ p2 > p1
     THEN [ok |-> TRUE, group |-> SubSeq(s, 1, p3 - 1)]
     ELSE NoMatch

NoMove == [ok |-> FALSE, rank |-> 0, notation |-> "", equity |-> 0]

\* The body of the loop over the lines: the MoveAnalysis the line adds to
\* move_analyses (ok), or the line is skipped (`continue`).
MoveOf(line) ==
  LET trimmed == Strip(line)
      dot_index == Find(trimmed, ".")
      equity_index == Find(trimmed, "eq.:")
      move_section == Strip(SubSeq(trimmed, dot_index + 1, equity_index - 1))
      notation == JoinSpace(SelectSeq(Tokens(move_section), HasSlash))
      equity_section == Strip(SubSeq(trimmed, equity_index + 4, Len(trimmed)))
      equity_match == EquityMatch(equity_section)
  IN IF trimmed = "" \/ Ch(trimmed, 1) \notin Digit THEN NoMove
     ELSE IF dot_index = 0 THEN NoMove
     ELSE IF IntRaises(SubSeq(trimmed, 1, dot_index - 1)) THEN NoMove
     ELSE IF equity_index = 0 THEN NoMove
     ELSE IF notation = "" THEN NoMove
     ELSE IF ~equity_match.ok THEN NoMove
     ELSE IF FloatRaises(equity_match.group) THEN NoMove
     ELSE [ok |-> TRUE,
           rank |-> IntOf(Strip(SubSeq(trimmed, 1, dot_index - 1))),
           notation |-> notation,
           equity |-> FloatOf(equity_match.group)]

Emitted(move) == move.ok

MoveAnalysis(move) == [rank |-> move.rank, notation |-> move.notation, equity |-> move.equity]

Collect(moves) ==
  LET kept == SelectSeq(moves, Emitted)
  IN [k \in 1..Len(kept) |-> MoveAnalysis(kept[k])]

\* The list with the lower ranks first (a permutation of it, ranks ascending).
ByRank(list) ==
  LET n == Len(list)
      perms == {f \in [1..n -> 1..n] : \A i, j \in 1..n : i # j => f[i] # f[j]}
      p == CHOOSE f \in perms :
             \A i, j \in 1..n :
               i < j => \/ list[f[i]].rank < list[f[j]].rank
                        \/ list[f[i]].rank = list[f[j]].rank /\ f[i] < f[j]
  IN [k \in 1..n |-> list[p[k]]]

\* The decoder with its result ordered by rank.
parse_move_analysis_by_rank(s) ==
  LET lines == SplitLines(s)
  IN ByRank(Collect([k \in 1..Len(lines) |-> MoveOf(lines[k])]))

\* parse_move_analysis(gnubg_output)
parse_move_analysis(s) ==
  LET lines == SplitLines(s)
  IN Collect([k \in 1..Len(lines) |-> MoveOf(lines[k])])

\* The lines the evaluation texts are made of: the label of the field a line
\* is an entry of, and the line.
EvalLines ==
  { [label |-> "equity", text |-> "Equity: +0.234"],
    [label |-> "win_prob", text |-> "Win: 56.2%"],
    [label |-> "win_prob", text |-> "Win: 1.2.3%"],
    [label |-> "gammon_prob", text |-> "Win G: 12.3%"],
    [label |-> "gammon_prob", text |-> "gammon 4.5%"],
    [label |-> "bg_prob", text |-> "Win BG: 0.8%"],
    [label |-> "bg_prob", text |-> "Backgammon: 0.8%"],
    [label |-> "none", text |-> "Cube: 1"] }

\* The lines the cube texts are made of: an equity line carries the label of
\* its field, a recommendation phrase the recommendation it names.
CubeLines ==
  { [label |-> "no_double_eq", text |-> "No double: -0.250"],
    [label |-> "no_double_eq", text |-> "No double: +0.500"],
    [label |-> "double_take_eq", text |-> "Double, take: -0.250"],
    [label |-> "double_take_eq", text |-> "double,  take +0.500"],
    [label |-> "double_pass_eq", text |-> "Double, pass: -0.250"],
    [label |-> "double_pass_eq", text |-> "Double, pass: +0.500"],
    [label |-> "Double", text |-> "Correct cube action: Double"],
    [label |-> "NoDouble", text |-> "correct cube action: no double"],
    [label |-> "TooGood", text |-> "Too good to double"] }

\* The lines the hint texts are made of: a line that is a move entry carries
\* its rank as label, every other line "skip".
MoveLines ==
  { [label |-> "1", text |-> "1. Cubeful 2-ply    8/5 8/4                      Eq.: +0.200"],
    [label |-> "2", text |-> "    2. Cubeful 2-ply 8/4 6/3 Eq.: +0.177 (-0.023)"],
    [label |-> "3", text |-> "3. 24/23 eq.: -1"],
    [label |-> "skip", text |-> "       0.571 0.000 0.000 - 0.429 0.000 0.000"],
    [label |-> "skip", text |-> "4. Cubeful 2-ply 8/5 6/3"],
    [label |-> "skip", text |-> "5. Cubeful 2-ply Eq.: +0.100"],
    [label |-> "skip", text |-> "6. 13/7 Eq.: n/a"],
    [label |-> "skip", text |-> "7 13/7 Eq.: +0.150"],
    [label |-> "skip", text |-> "Cannot hint 8/5 Eq.: 0.100"],
    [label |-> "skip", text |-> ""] }

\* ------------------------------------------------------------------- Init
NoOutcome == [kind |-> "none", value |-> ""]

\* What the model keeps of a result once execute_commands is left and the
\* value or exception has gone to the caller: whether it returned or raised.
Handed(res) ==
  [kind |-> IF res.kind \in {"none", "returned"} THEN res.kind ELSE "raised",
   value |-> ""]

Init ==
  /\ pc = [t \in Callers |-> "idle"]
  /\ kind = [t \in Callers |-> "cmd"]
  /\ commands = [t \in Callers |-> <<>>]
  /\ temp_file = [t \in Callers |-> ""]
  /\ lock = 0
  /\ waiters = <<>>
  /\ passed = {}
  /\ procs = {}
  /\ full_command = [t \in Callers |-> ""]
  /\ stdout = [t \in Callers |-> ""]
  /\ stderr = [t \in Callers |-> ""]
  /\ returncode = [t \in Callers |-> -1]
  /\ expired = [t \in Callers |-> FALSE]
  /\ spawned = [t \in Callers |-> 0]
  /\ outcome = [t \in Callers |-> NoOutcome]
  /\ remove_failed = [t \in Callers |-> FALSE]
  /\ files = {}
  /\ gnubg_output = ""
  /\ entries = <<>>
  /\ phase = "input"
  /\ raised = ""
  /\ evaluation = PositionEvaluation
  /\ decision = CubeDecision
  /\ move_analyses = <<>>
  /\ calls = 0

\* ---------------------------------------------------------------- actions
\* BuildScript that leaves out the quit line when the caller's last command
\* is already "quit".
BuildScriptDedup(cmds) ==
  IF cmds # <<>> /\ cmds[Len(cmds)] = QUIT
  THEN Join(cmds) \o NL
  ELSE Join(cmds) \o NL \o QUIT \o NL

\* full_command = '\n'.join(commands) + '\nquit\n'
BuildScript(cmds) == Join(cmds) \o NL \o QUIT \o NL

\* Enter without the lock: the block is entered whether or not the lock is free.
EnterNoLock(t, cmds) ==
  /\ lock' = t
  /\ passed' = {waiters[j] : j \in 1..Len(waiters)}
  /\ full_command' = [full_command EXCEPT ![t] = BuildScript(cmds)]
  /\ pc' = [pc EXCEPT ![t] = "locked"]
  /\ UNCHANGED waiters

\* `with self._lock` is reached: lock.acquire() takes the lock at once when it
\* is free, and otherwise blocks the caller, which joins the waiters.  Inside
\* the block full_command is built first.
Enter(t, cmds) ==
  IF lock = 0
  THEN /\ lock' = t
       /\ passed' = {waiters[j] : j \in 1..Len(waiters)}
       /\ full_command' = [full_command EXCEPT ![t] = BuildScript(cmds)]
       /\ pc' = [pc EXCEPT ![t] = "locked"]
       /\ UNCHANGED waiters
  ELSE /\ waiters' = Append(waiters, t)
       /\ full_command' = [full_command EXCEPT ![t] = ""]
       /\ pc' = [pc EXCEPT ![t] = "waiting"]
       /\ UNCHANGED <<lock, passed>>

\* A call starts: every per-call field starts afresh.  Callers are numbered in
\* the order of their first calls.
Fresh(t, k, file) ==
  /\ pc[t] \in {"idle", "done"}
  /\ \A u \in Callers : u < t => pc[u] # "idle"
  /\ kind' = [kind EXCEPT ![t] = k]
  /\ temp_file' = [temp_file EXCEPT ![t] = file]
  /\ stdout' = [stdout EXCEPT ![t] = ""]
  /\ stderr' = [stderr EXCEPT ![t] = ""]
  /\ returncode' = [returncode EXCEPT ![t] = -1]
  /\ expired' = [expired EXCEPT ![t] = FALSE]
  /\ spawned' = [spawned EXCEPT ![t] = 0]
  /\ outcome' = [outcome EXCEPT ![t] = NoOutcome]
  /\ remove_failed' = [remove_failed EXCEPT ![t] = FALSE]

\* execute_commands(commands) is called directly.
CallExecute(t, cmds) ==
  /\ Fresh(t, "cmd", "")
  /\ commands' = [commands EXCEPT ![t] = cmds]
  /\ Enter(t, cmds)
  /\ UNCHANGED <<procs, files>>

\* uuid.uuid4() gives a name that no file has and no call has used.  Fresh
\* names are interchangeable: the model takes the first one that no file and
\* no caller has.
FreshName ==
  LET used == files \cup {temp_file[u] : u \in Callers}
      n == CHOOSE k \in 1..(MaxFiles + NumCallers + 1) :
             /\ TempName(k) \notin used
             /\ \A j \in 1..(k - 1) : TempName(j) \in used
  IN TempName(n)

\* execute_with_sgf(sgf_content, commands): temp_file is named.
CallSgf(t, cmds) ==
  /\ Fresh(t, "sgf", FreshName)
  /\ commands' = [commands EXCEPT ![t] = cmds]
  /\ full_command' = [full_command EXCEPT ![t] = ""]
  /\ pc' = [pc EXCEPT ![t] = "open"]
  /\ UNCHANGED <<passed, lock, waiters, procs, files>>

\* all_commands = [f"load position {temp_file}"] + commands
AllCommands(file, cmds) == << "load position " \o file >> \o cmds

\* open() and f.write() succeed; execute_commands(all_commands) is called.
SgfWrite(t) ==
  /\ pc[t] = "open"
  /\ Cardinality(files) < MaxFiles
  /\ files' = files \cup {temp_file[t]}
  /\ commands' = [commands EXCEPT ![t] = AllCommands(temp_file[t], commands[t])]
  /\ Enter(t, AllCommands(temp_file[t], commands[t]))
  /\ UNCHANGED <<kind, temp_file, procs, stdout, stderr, returncode,
                 expired, spawned, outcome, remove_failed>>

\* open() raises (no file), or f.write() raises (the file exists).  The temp
\* directory holds at most MaxFiles files: beyond that open() can only fail.
SgfWriteFail(t, created) ==
  /\ pc[t] = "open"
  /\ created => Cardinality(files) < MaxFiles
  /\ files' = IF created THEN files \cup {temp_file[t]} ELSE files
  /\ outcome' = [outcome EXCEPT ![t] = Handed([kind |-> "OSError", value |-> ""])]
  /\ pc' = [pc EXCEPT ![t] = "finally"]
  /\ UNCHANGED <<kind, commands, temp_file, lock, waiters, passed, procs,
                 full_command, stdout, stderr, returncode, expired, spawned,
                 remove_failed>>

\* Acquire that wakes a blocked caller whether or not the lock is free.
AcquireAnyTime(t) ==
  /\ pc[t] = "waiting"
  /\ lock' = t
  /\ \E i \in 1..Len(waiters) :
       /\ waiters[i] = t
       /\ passed' = {waiters[j] : j \in 1..(i - 1)}
       /\ waiters' = SubSeq(waiters, 1, i - 1) \o SubSeq(waiters, i + 1, Len(waiters))
  /\ full_command' = [full_command EXCEPT ![t] = BuildScript(commands[t])]
  /\ pc' = [pc EXCEPT ![t] = "locked"]
  /\ UNCHANGED <<kind, commands, temp_file, procs, stdout, stderr, returncode,
                 expired, spawned, outcome, remove_failed, files>>

\* lock.acquire() returns in a blocked caller once the lock is free.  Which
\* of several blocked callers proceeds is not defined by threading.Lock.
Acquire(t) ==
  /\ pc[t] = "waiting"
  /\ lock = 0
  /\ lock' = t
  /\ \E i \in 1..Len(waiters) :
       /\ waiters[i] = t
       /\ passed' = {waiters[j] : j \in 1..(i - 1)}
       /\ waiters' = SubSeq(waiters, 1, i - 1) \o SubSeq(waiters, i + 1, Len(waiters))
  /\ full_command' = [full_command EXCEPT ![t] = BuildScript(commands[t])]
  /\ pc' = [pc EXCEPT ![t] = "locked"]
  /\ UNCHANGED <<kind, commands, temp_file, procs, stdout, stderr, returncode,
                 expired, spawned, outcome, remove_failed, files>>

\* subprocess.run starts the process.
Spawn(t) ==
  /\ pc[t] = "locked"
  /\ procs' = procs \cup {t}
  /\ spawned' = [spawned EXCEPT ![t] = @ + 1]
  /\ pc' = [pc EXCEPT ![t] = "running"]
  /\ UNCHANGED <<kind, commands, temp_file, lock, waiters, passed, full_command,
                 stdout, stderr, returncode, expired, outcome, remove_failed,
                 files>>

\* subprocess.run cannot start the process (no such executable): OSError
\* propagates out of the `with` block.
SpawnFail(t) ==
  /\ pc[t] = "locked"
  /\ outcome' = [outcome EXCEPT ![t] = [kind |-> "OSError", value |-> ""]]
  /\ pc' = [pc EXCEPT ![t] = "leaving"]
  /\ UNCHANGED <<kind, commands, temp_file, lock, waiters, passed, procs,
                 full_command, stdout, stderr, returncode, expired, spawned,
                 remove_failed, files>>

\* The engine writes to its standard output or standard error.
ProcWrite(t, toErr) ==
  /\ pc[t] = "running"
  /\ t \in procs
  /\ IF toErr
     THEN /\ Len(stderr[t]) < MaxOutput
          /\ stderr' = [stderr EXCEPT ![t] = @ \o "e"]
          /\ UNCHANGED stdout
     ELSE /\ Len(stdout[t]) < MaxOutput
          /\ stdout' = [stdout EXCEPT ![t] = @ \o "o"]
          /\ UNCHANGED stderr
  /\ UNCHANGED <<pc, kind, commands, temp_file, lock, waiters, passed, procs,
                 full_command, returncode, expired, spawned, outcome,
                 remove_failed, files>>

\* The engine exits within the deadline: subprocess.run returns the
\* CompletedProcess.
ProcExit(t, rc) ==
  /\ pc[t] = "running"
  /\ t \in procs
  /\ procs' = procs \ {t}
  /\ returncode' = [returncode EXCEPT ![t] = rc]
  /\ pc' = [pc EXCEPT ![t] = "exited"]
  /\ UNCHANGED <<kind, commands, temp_file, lock, waiters, passed, full_command,
                 stdout, stderr, expired, spawned, outcome, remove_failed, files>>

\* TimeoutResult that returns what the process had written before the kill.
TimeoutResultPartial(out) ==
  IF out = "" THEN [kind |-> "TimeoutError", value |-> ""]
  ELSE [kind |-> "returned", value |-> out]

\* except subprocess.TimeoutExpired: raise TimeoutError(...)
TimeoutResult(out) == [kind |-> "TimeoutError", value |-> ""]

\* The deadline passes with the engine still running: subprocess.run kills
\* the process, waits for it and raises TimeoutExpired, which execute_commands
\* turns into TimeoutError.
Timeout(t) ==
  /\ pc[t] = "running"
  /\ t \in procs
  /\ procs' = procs \ {t}
  /\ expired' = [expired EXCEPT ![t] = TRUE]
  /\ outcome' = [outcome EXCEPT ![t] = TimeoutResult(stdout[t])]
  /\ pc' = [pc EXCEPT ![t] = "leaving"]
  /\ UNCHANGED <<kind, commands, temp_file, lock, waiters, passed, full_command,
                 stdout, stderr, returncode, spawned, remove_failed, files>>

\* Result that raises whenever there is error output.
ResultFailOnStderr(out, err) ==
  IF err # ""
  THEN [kind |-> "Exception", value |-> err]
  ELSE [kind |-> "returned", value |-> out]

\* if not result.stdout and result.stderr: raise Exception(...)
\* return result.stdout
Result(out, err) ==
  IF out = "" /\ err # ""
  THEN [kind |-> "Exception", value |-> err]
  ELSE [kind |-> "returned", value |-> out]

Return(t) ==
  /\ pc[t] = "exited"
  /\ outcome' = [outcome EXCEPT ![t] = Result(stdout[t], stderr[t])]
  /\ pc' = [pc EXCEPT ![t] = "leaving"]
  /\ UNCHANGED <<kind, commands, temp_file, lock, waiters, passed, procs,
                 full_command, stdout, stderr, returncode, expired, spawned,
                 remove_failed, files>>

\* Leaving the block without `with`: the lock is given back after a return
\* only, an exception leaves it held.
ReleaseOnReturn(t) ==
  /\ pc[t] = "leaving"
  /\ lock' = IF outcome[t].kind = "returned" THEN 0 ELSE lock
  /\ passed' = {}
  /\ commands' = [commands EXCEPT ![t] = <<>>]
  /\ full_command' = [full_command EXCEPT ![t] = ""]
  /\ stdout' = [stdout EXCEPT ![t] = ""]
  /\ stderr' = [stderr EXCEPT ![t] = ""]
  /\ returncode' = [returncode EXCEPT ![t] = -1]
  /\ expired' = [expired EXCEPT ![t] = FALSE]
  /\ spawned' = [spawned EXCEPT ![t] = 0]
  /\ pc' = [pc EXCEPT ![t] = IF kind[t] = "sgf" THEN "finally" ELSE "done"]
  /\ outcome' = [outcome EXCEPT ![t] = Handed(@)]
  /\ UNCHANGED <<kind, temp_file, waiters, procs, remove_failed, files>>

\* The `with` block is left, by return or by exception: the lock is released
\* and execute_commands' locals are gone.  Under execute_with_sgf the finally
\* block runs next.
Release(t) ==
  /\ pc[t] = "leaving"
  /\ lock' = 0
  /\ passed' = {}
  /\ commands' = [commands EXCEPT ![t] = <<>>]
  /\ full_command' = [full_command EXCEPT ![t] = ""]
  /\ stdout' = [stdout EXCEPT ![t] = ""]
  /\ stderr' = [stderr EXCEPT ![t] = ""]
  /\ returncode' = [returncode EXCEPT ![t] = -1]
  /\ expired' = [expired EXCEPT ![t] = FALSE]
  /\ spawned' = [spawned EXCEPT ![t] = 0]
  /\ pc' = [pc EXCEPT ![t] = IF kind[t] = "sgf" THEN "finally" ELSE "done"]
  /\ outcome' = [outcome EXCEPT ![t] = Handed(@)]
  /\ UNCHANGED <<kind, temp_file, waiters, procs, remove_failed, files>>

\* Remove that cleans up only after a normal return (the removal placed after
\* the call instead of in a finally block).
RemoveAfterReturn(t, ok) ==
  IF temp_file[t] \in files /\ outcome[t].kind = "returned"
  THEN /\ files' = IF ok THEN files \ {temp_file[t]} ELSE files
       /\ remove_failed' = [remove_failed EXCEPT ![t] = ~ok]
  ELSE /\ ok
       /\ UNCHANGED <<files, remove_failed>>

\* finally: if os.path.exists(temp_file): os.remove(temp_file), which may
\* raise; the exception is swallowed.
Remove(t, ok) ==
  IF temp_file[t] \in files
  THEN /\ files' = IF ok THEN files \ {temp_file[t]} ELSE files
       /\ remove_failed' = [remove_failed EXCEPT ![t] = ~ok]
  ELSE /\ ok
       /\ UNCHANGED <<files, remove_failed>>

\* The finally block runs and execute_with_sgf is left; its locals are gone.
Finally(t, ok) ==
  /\ pc[t] = "finally"
  /\ Remove(t, ok)
  /\ pc' = [pc EXCEPT ![t] = "done"]
  /\ temp_file' = [temp_file EXCEPT ![t] = ""]
  /\ commands' = [commands EXCEPT ![t] = <<>>]
  /\ UNCHANGED <<kind, lock, waiters, passed, procs, full_command, stdout,
                 stderr, returncode, expired, spawned, outcome>>

Step(t) ==
  \/ SgfWrite(t)
  \/ \E created \in BOOLEAN : SgfWriteFail(t, created)
  \/ Acquire(t)
  \/ Spawn(t)
  \/ SpawnFail(t)
  \/ \E toErr \in BOOLEAN : ProcWrite(t, toErr)
  \/ \E rc \in {0, 1} : ProcExit(t, rc)
  \/ Timeout(t)
  \/ Return(t)
  \/ Release(t)
  \/ \E ok \in BOOLEAN : Finally(t, ok)

Next ==
  /\ \E t \in Callers :
       \/ CallExecute(t, << "show version" >>)
       \/ CallSgf(t, build_evaluation_commands(2, TRUE))
       \/ Step(t)
  /\ UNCHANGED <<parserVars, calls>>

Spec == Init /\ [][Next]_vars

\* One caller and every command list: the specification of the script claims.
NextScript ==
  /\ \/ \E cmds \in RawCommands : CallExecute(1, cmds)
     \/ \E cmds \in BuiltCommands : CallSgf(1, cmds)
     \/ SgfWrite(1)
     \/ \E created \in BOOLEAN : SgfWriteFail(1, created)
     \/ Spawn(1)
     \/ SpawnFail(1)
     \/ \E toErr \in BOOLEAN : ProcWrite(1, toErr)
     \/ \E rc \in {0, 1} : ProcExit(1, rc)
     \/ Timeout(1)
     \/ Return(1)
     \/ Release(1)
     \/ \E ok \in BOOLEAN : Finally(1, ok)
  /\ UNCHANGED <<parserVars, calls>>

SpecScript == Init /\ [][NextScript]_vars

\* A finite sequence of invocations of execute_commands: at most MaxCalls
\* calls by the callers, each followed to its end.
NextLive ==
  /\ \/ /\ calls < MaxCalls
        /\ calls' = calls + 1
        /\ \E t \in Callers : CallExecute(t, << "show version" >>)
     \/ /\ UNCHANGED calls
        /\ \E t \in Callers :
             \/ Acquire(t)
             \/ Spawn(t)
             \/ SpawnFail(t)
             \/ \E toErr \in BOOLEAN : ProcWrite(t, toErr)
             \/ \E rc \in {0, 1} : ProcExit(t, rc)
             \/ Timeout(t)
             \/ Return(t)
             \/ Release(t)
  /\ UNCHANGED parserVars

\* A thread that can run does run: a blocked thread is woken when the lock is
\* free, subprocess.run starts the process or fails, the process ends or the
\* deadline passes (timeout=self.timeout), and the code after it is executed.
Fairness ==
  \A t \in Callers :
    /\ WF_runnerVars(Acquire(t))
    /\ WF_runnerVars(Spawn(t) \/ SpawnFail(t))
    /\ WF_runnerVars((\E rc \in {0, 1} : ProcExit(t, rc)) \/ Timeout(t))
    /\ WF_runnerVars(Return(t))
    /\ WF_runnerVars(Release(t))

SpecLive == Init /\ [][NextLive]_vars /\ Fairness

\* ----------------------------------------------------- the parser's calls
\* The caller's text grows by one line of engine output.
AddLine(e, max) ==
  /\ phase = "input"
  /\ Len(entries) < max
  /\ gnubg_output' = gnubg_output \o e.text \o NL
  /\ entries' = Append(entries, e.label)
  /\ UNCHANGED <<phase, raised, evaluation, decision, move_analyses>>

AddEvalLine(e) == AddLine(e, MaxEvalLines)

AddCubeLine(e) == AddLine(e, MaxCubeLines)

ParseEvaluation ==
  /\ phase = "input"
  /\ phase' = "parsed"
  /\ raised' = parse_evaluation(gnubg_output).raised
  /\ evaluation' = parse_evaluation(gnubg_output).value
  /\ UNCHANGED <<gnubg_output, entries, decision, move_analyses>>

ParseCubeDecision ==
  /\ phase = "input"
  /\ phase' = "parsed"
  /\ decision' = parse_cube_decision(gnubg_output)
  /\ UNCHANGED <<gnubg_output, entries, raised, evaluation, move_analyses>>

NextEval ==
  /\ \/ \E e \in EvalLines : AddEvalLine(e)
     \/ ParseEvaluation
  /\ UNCHANGED <<runnerVars, calls>>

SpecEval == Init /\ [][NextEval]_vars

NextCube ==
  /\ \/ \E e \in CubeLines : AddCubeLine(e)
     \/ ParseCubeDecision
  /\ UNCHANGED <<runnerVars, calls>>

SpecCube == Init /\ [][NextCube]_vars

AddMoveLine(e) == AddLine(e, MaxMoveLines)

ParseMoveAnalysis ==
  /\ phase = "input"
  /\ phase' = "parsed"
  /\ move_analyses' = parse_move_analysis(gnubg_output)
  /\ UNCHANGED <<gnubg_output, entries, raised, evaluation, decision>>

NextMoves ==
  /\ \/ \E e \in MoveLines : AddMoveLine(e)
     \/ ParseMoveAnalysis
  /\ UNCHANGED <<runnerVars, calls>>

SpecMoves == Init /\ [][NextMoves]_vars

IsRank(label) == label # "skip"

Has(label) == \E i \in 1..Len(entries) : entries[i] = label


\* ----------------------------------------------------------------- claims
InBlock(t) == pc[t] \in {"locked", "running", "exited", "leaving"}

\* C1: at most one engine subprocess is alive at any moment, and a caller is
\* inside the `with` block (from before its process starts until after the
\* output is read or the deadline has passed) only while it holds the lock.
C1_OneProcess ==
  /\ Cardinality(procs) <= 1
  /\ \A t \in Callers : (InBlock(t) \/ t \in procs) => lock = t

\* C1 witness: one caller's process is alive while another caller is blocked.
C1_Witness ==
  \E t \in Callers, u \in Callers : t \in procs /\ pc[u] = "waiting"

\* C2: once the deadline has passed in a call, the process is gone, the call
\* ends with TimeoutError and no text, and no second process was started.
C2_TimeoutRaises ==
  \A t \in Callers :
    expired[t] =>
      /\ pc[t] = "leaving"
      /\ t \notin procs
      /\ outcome[t] = [kind |-> "TimeoutError", value |-> ""]
      /\ spawned[t] = 1

\* C2 witness: the deadline passed after the process had written output.
C2_Witness ==
  \E t \in Callers :
    expired[t] /\ stdout[t] # "" /\ outcome[t].kind = "TimeoutError"

\* C3 as claimed: when execute_with_sgf is left, on any path, its scratch file
\* does not exist.
C3_FileGoneAlways ==
  [][\A t \in Callers :
       (pc[t] = "finally" /\ pc'[t] = "done") => temp_file[t] \notin files']_vars

\* C3 as amended: when execute_with_sgf is left, on any path, its scratch file
\* does not exist unless os.remove raised; that exception is swallowed, the
\* file stays and the call's own result or error is what the caller gets.
C3_FileGoneUnlessRemoveFails ==
  [][\A t \in Callers :
       (pc[t] = "finally" /\ pc'[t] = "done") =>
         /\ outcome'[t] = outcome[t]
         /\ IF remove_failed'[t]
            THEN temp_file[t] \in files'
            ELSE temp_file[t] \notin files']_vars

\* C3 witness: execute_with_sgf has raised and no scratch file is left.
C3_Witness ==
  \E t \in Callers :
    /\ pc[t] = "done" /\ kind[t] = "sgf"
    /\ outcome[t].kind = "raised"
    /\ ~remove_failed[t]
    /\ files = {}

HasNewline(cmd) == \E i \in 1..Len(cmd) : Ch(cmd, i) = NL

CountQuit(ls) == Cardinality({i \in 1..Len(ls) : ls[i] = QUIT})

\* C4 as claimed: the script is the caller's commands, one per line, followed
\* by one quit line, for every command list; a builder's list holds no quit.
C4_ScriptIsCommandsThenQuit ==
  \A t \in Callers :
    InBlock(t) =>
      /\ ScriptLines(full_command[t]) = commands[t] \o <<QUIT>>
      /\ kind[t] = "sgf" => CountQuit(commands[t]) = 0

\* C4 as amended: for a non-empty list of commands that hold no line break
\* the script is the commands, one per line and in order, followed by one
\* quit line; for the empty list it is an empty line followed by the quit
\* line; in every case exactly one quit line is added and it is the last
\* line; a builder's list holds no quit.
C4_ScriptLines ==
  \A t \in Callers :
    InBlock(t) =>
      LET cs == commands[t]
          ls == ScriptLines(full_command[t])
      IN /\ (cs # <<>> /\ \A i \in 1..Len(cs) : ~HasNewline(cs[i]))
              => ls = cs \o <<QUIT>>
         /\ cs = <<>> => ls = << "", QUIT >>
         /\ ls = ScriptLines(Join(cs) \o NL) \o <<QUIT>>
         /\ Ch(full_command[t], Len(full_command[t])) = NL
         /\ kind[t] = "sgf" => (CountQuit(cs) = 0 /\ CountQuit(ls) = 1)

\* C4 witness: a process runs on the script of a list that ends with quit.
C4_Witness ==
  \E t \in Callers :
    /\ pc[t] = "running"
    /\ commands[t] = << "hint", "quit" >>
    /\ CountQuit(ScriptLines(full_command[t])) = 2

C6_FailureIff ==
  \A t \in Callers :
    (pc[t] = "leaving" /\ returncode[t] # -1) =>
      LET fail == stdout[t] = "" /\ stderr[t] # ""
      IN /\ outcome[t].kind = "Exception" <=> fail
         /\ ~fail => outcome[t] = [kind |-> "returned", value |-> stdout[t]]

\* C6 witness: a process that ended with a non-zero exit code and wrote to
\* both streams; the call returns.
C6_Witness ==
  \E t \in Callers :
    /\ pc[t] = "leaving" /\ returncode[t] = 1
    /\ stdout[t] # "" /\ stderr[t] # ""
    /\ outcome[t].kind = "returned"

\* C7: for every input text no decoder raises; each returns a result with
\* defaults for what it could not parse, numerically malformed values
\* included. Stated for parse_evaluation: the call never ends in an exception.
C7_NeverRaises == raised = ""

\* C8: whenever the text contains an explicit recommendation phrase, the
\* recommendation is the one the phrase names, whatever the equities are.
C8_PhraseNames ==
  phase = "parsed" =>
    \A r \in {"Double", "NoDouble", "TooGood"} :
      Has(r) => decision.recommendation = r

\* C8 (amended): a phrase in the text overrides the numeric inference; when
\* the text holds several phrases the first of "correct cube action: double",
\* "correct cube action: no double", "too good" that is present decides.
C8_PhrasePrecedence ==
  phase = "parsed" =>
    /\ Has("Double") => decision.recommendation = "Double"
    /\ ~Has("Double") /\ Has("NoDouble") => decision.recommendation = "NoDouble"
    /\ ~Has("Double") /\ ~Has("NoDouble") /\ Has("TooGood")
         => decision.recommendation = "TooGood"

\* A text whose equities say Double and whose only phrase says no double.
C8_Witness ==
  /\ phase = "parsed"
  /\ Has("NoDouble") /\ ~Has("Double") /\ ~Has("TooGood")
  /\ decision.double_take_eq > decision.no_double_eq
  /\ decision.double_take_eq > decision.double_pass_eq
  /\ decision.no_double_eq # 0
  /\ decision.recommendation = "NoDouble"

\* C9: with no recommendation phrase in the text, the recommendation is Double
\* exactly when the double-take equity is strictly greater than both others,
\* TooGood exactly when the double-pass equity is strictly greater than both
\* others, and NoDouble in every other case.
C9_NumericInference ==
  phase = "parsed" /\ ~Has("Double") /\ ~Has("NoDouble") /\ ~Has("TooGood") =>
    LET nd == decision.no_double_eq
        dt == decision.double_take_eq
        dp == decision.double_pass_eq
        take == dt > nd /\ dt > dp
        pass == dp > nd /\ dp > dt
    IN /\ decision.recommendation = "Double" <=> take
       /\ decision.recommendation = "TooGood" <=> pass
       /\ decision.recommendation = "NoDouble" <=> ~take /\ ~pass

\* A text without phrase where double-take and double-pass tie above no-double.
C9_Witness ==
  /\ phase = "parsed"
  /\ ~Has("Double") /\ ~Has("NoDouble") /\ ~Has("TooGood")
  /\ Has("no_double_eq") /\ Has("double_take_eq") /\ Has("double_pass_eq")
  /\ decision.double_take_eq = decision.double_pass_eq
  /\ decision.double_take_eq > decision.no_double_eq
  /\ decision.recommendation = "NoDouble"

\* C10: each of parse_evaluation's four fields is set only from its own
\* labeled entry; a field whose entry is not in the text keeps 0.0 whatever
\* other entries the text holds.
C10_FieldsIndependent ==
  phase = "parsed" /\ raised = "" =>
    \A f \in {"equity", "win_prob", "gammon_prob", "bg_prob"} :
      ~Has(f) => evaluation[f] = 0

\* C11: parse_move_analysis emits exactly one entry per line that starts with
\* a rank number and a period, contains the "Eq.:" marker, has a token with
\* "/" between them and a parsable equity; every other line adds no entry and
\* no error; the entries are in source line order, never re-sorted by rank.
C11_OneEntryPerMoveLine ==
  phase = "parsed" =>
    LET ranked == SelectSeq(entries, IsRank)
    IN /\ raised = ""
       /\ Len(move_analyses) = Len(ranked)
       /\ \A k \in 1..Len(ranked) : move_analyses[k].rank = IntOf(ranked[k])

\* A text whose move lines come with the higher rank first.
C11_Witness ==
  /\ phase = "parsed"
  /\ Len(move_analyses) = 2
  /\ move_analyses[1].rank > move_analyses[2].rank
  /\ move_analyses[1].notation = "8/4 6/3"
  /\ move_analyses[2].notation = "8/5 8/4"

\* C12: the lock is released on every exit path of execute_commands (return,
\* timeout, execution failure, failure to spawn): after any finite sequence
\* of invocations the lock is free once no invocation is in progress, and a
\* caller waiting on the lock eventually runs, given that each engine process
\* ends or hits the deadline.
C12_LockReleased ==
  /\ []((\A t \in Callers : ~InBlock(t)) => lock = 0)
  /\ \A t \in Callers : (pc[t] = "waiting") ~> InBlock(t)

\* A call ended with an exception while another caller waits: the lock is free.
C12_Witness ==
  \E t, u \in Callers :
    /\ pc[t] = "done"
    /\ outcome[t].kind = "raised"
    /\ pc[u] = "waiting"
    /\ lock = 0

====
